---- MODULE Spec2Model ----
(***************************************************************************)
(* Phase retrieval GUI (PR_applet_sized.py, TrackingClasses.py): the Tk    *)
(* main thread with its handlers (edit of a parameter entry, load PSF,     *)
(* start/stop button, the 250 ms poll) and the background phase retrieval  *)
(* thread that the start handler creates.  Handlers of the main thread run *)
(* one at a time; the steps of a background thread interleave with them.   *)
(***************************************************************************)
EXTENDS Integers, Sequences, FiniteSets, TLC

\* ------------------------------------------------------------------ bounds
MaxIters == 2   \* largest value of the max-iterations entry (default 100 in the GUI)
MaxTol == 1     \* largest tolerance, in units of the smallest tolerance
MaxDiff == 1    \* largest difference a solver step reports, same units
MaxRuns == 2    \* number of phase retrieval threads created in one session
MaxEdits == 2   \* number of edits of parameter entries in one session
StackZ == 2     \* z planes of a loaded stack
StackXY == 2    \* pixels in x and y of a loaded stack
CatLen == 3     \* number of Zernike polynomials in zernike.noll2name
MaxCoef == 1          \* raw coefficients lie in -MaxCoef..MaxCoef (units of a quarter wavelength)
MaxPhaseTol == 2      \* phase tolerances lie in 1..MaxPhaseTol (same units; 2 is the default)
MaxImage == 5         \* largest number of bytes of the png of a figure
PollIters == 6        \* max_iters of the long run
MaxRenders == 2       \* redraws of a running thread that are followed

\* --------------------------------------------------------------- constants
EMPTY == -1            \* a tk variable whose entry was emptied: get() raises TclError
NoSize == -2           \* xy_size / z_size before any load (None)
DefaultPupilTol == 1   \* 1e-8, in its own unit
DefaultMseTol == 1     \* 1e-6, in its own unit
None == <<>>           \* psf_data before any load
DefaultPhaseTol == 2   \* 0.5 wavelengths, in units of 0.25

PsfFields == {"wl", "na", "ni", "res", "zres"}
FitFields == {"max_iters", "pupil_tol", "mse_tol"}
RequiredFields == PsfFields \cup FitFields

FieldValues(f) ==
    IF f = "max_iters" THEN {EMPTY} \cup (0..MaxIters)
    ELSE IF f \in {"pupil_tol", "mse_tol"} THEN {EMPTY} \cup (0..MaxTol)
    ELSE {EMPTY, 0, 1}

\* status messages
NotStarted == "Phase retrieval not started yet"
Running == "Phase retrieval running..."
Cancelled == "Phase retrieval cancelled by user."
PupilConverged == "Pupil function converged."
MseConverged == "Mean-square error converged."
MaxReached == "Maximum iterations reached."
SolverFailure == "Solver failure."
Continue == "continue"
Reasons == {Cancelled, PupilConverged, MseConverged, MaxReached, SolverFailure}
\* a status message in two parts, as the reports are written to handle
TwoLines == "Maximum iterations reached.\nPhase retrieval did not converge."
StatusMessages == Reasons \cup {NotStarted, Running, TwoLines}

StartOutcomes == {"TclError", "warn_parameters", "warn_shape", "AttributeError", "started"}

VARIABLES
    field,        \* PsfandFitParameters: the value of each parameter's tk variable
    psf_data,     \* PsfandFitParameters.psf_data: None or the shape of the stack
    z_size,       \* PsfandFitParameters.z_size
    xy_size,      \* PsfandFitParameters.xy_size
    is_initiated, \* PsfandFitParameters.is_initiated
    pr_state,     \* PrState: current_iter, current_pupil_diff, current_mse_diff,
                  \*          current_state, pr_finished
    pr_button,    \* command bound to the start/stop button
    workers,      \* the PhaseRetrievalThreaded objects, by order of creation
    pr_thread,    \* MainWindow.pr_thread: index of the latest thread, 0 before the first
    pollPending,  \* number of check_pr_results callbacks scheduled with after()
    mainPc,       \* position of the main thread: idle, or inside initiate_pr after start()
    outcome,      \* what the most recent handler of the main thread ended in
    edits,        \* number of edits made so far
    flips,        \* how often pr_finished went from false to true since the last start
    catalog,      \* ZernikeDecomposition.zernike_polynomials
    classified_by,\* the thread whose coefficients the catalog was last updated with, or 0
    pr_result,    \* phase_retrieval_results: number of iterations it holds
    renders,      \* the iterations at which check_pr_results has redrawn the results
                  \* of a running thread, in the order of the polls
    stream,       \* a BytesIO of ResultImageStreams: its bytes and its position
    jvm,          \* the Java virtual machine of javabridge: none, running or killed
    process       \* the position of the process between its start and its end

vars == <<field, psf_data, z_size, xy_size, is_initiated, pr_state, pr_button, workers,
          pr_thread, pollPending, mainPc, outcome, edits, flips, catalog, classified_by,
          pr_result, renders, stream, jvm, process>>

\* what the handlers of a session leave alone: the image stream (followed on its own
\* further down) and the virtual machine and the process (started before the first
\* handler runs, ended after the last)
outside == <<stream, jvm, process>>

\* the result objects of the main window
results == <<catalog, classified_by, pr_result>>

params == <<field, psf_data, z_size, xy_size, is_initiated>>

\* ------------------------------------------------------------ the worker
NoWorker ==
    [pc |-> "none", stop_pr |-> FALSE, iter |-> 0, max_iters |-> 0, pupil_tol |-> 0,
     mse_tol |-> 0, pupil_diff |-> 0, mse_diff |-> 0, decision |-> Continue,
     cancelAt |-> -1, cancelLate |-> FALSE]

\* The thread runs: it was started and has not ended
IsAlive(w) == w.pc \notin {"none", "dead", "joined"}

\* a check that takes every thread for stopped
is_alive_never(w) == FALSE

\* threading.Thread.is_alive as check_pr_results calls it
is_alive(w) == IsAlive(w)

\* a stop handler that leaves the event unset
stop_pr_not_set(w) == w

\* threading.Event.set on the thread's stop_pr, as stop_pr calls it
stop_pr_set(w) == [w EXCEPT !.stop_pr = TRUE]

\* initiate_pr that leaves the button on start
button_left_on_start == "initiate_pr"

\* the command initiate_pr binds to the start/stop button after the start
button_after_start == "stop_pr"

\* A thread the poll has found ended: what is left of it is its stop_pr event, its
\* max_iters, the reason it chose and the iteration it chose it at
Ended(w) ==
    [NoWorker EXCEPT !.pc = "joined", !.stop_pr = w.stop_pr, !.decision = w.decision,
                     !.iter = w.iter, !.max_iters = w.max_iters]

\* reset_state that leaves the iteration counter as it is
reset_state_keeps_iter(s) ==
    [s EXCEPT !.current_pupil_diff = 0, !.current_mse_diff = 0, !.pr_finished = FALSE]

\* reset_state that leaves pr_finished as it is
reset_state_keeps_finished(s) == [s EXCEPT !.current_iter = 0, !.current_pupil_diff = 0, !.current_mse_diff = 0]

\* PrState.reset_state
reset_state(s) ==
    [s EXCEPT !.current_iter = 0, !.current_pupil_diff = 0, !.current_mse_diff = 0,
              !.pr_finished = FALSE]

\* PsfandFitParameters.verify, with the way it ends
verify ==
    IF \E f \in RequiredFields : field[f] = EMPTY THEN "TclError"
    ELSE IF \E f \in RequiredFields : field[f] = 0 THEN "warn_parameters"
    ELSE IF psf_data = None THEN "AttributeError"
    ELSE IF psf_data # <<z_size, xy_size, xy_size>> THEN "warn_shape"
    ELSE "started"

\* a thread that is given the stop_pr event of the thread before it
NewWorkerSharedEvent == [NoWorker EXCEPT !.pc = "check", !.max_iters = field["max_iters"], !.pupil_tol = field["pupil_tol"], !.mse_tol = field["mse_tol"], !.stop_pr = (pr_thread >= 1 /\ workers[pr_thread].stop_pr)]

\* PsfandFitParameters.fit_parameter_dict, handed to the thread as keyword arguments
NewWorker ==
    [NoWorker EXCEPT !.pc = "check", !.max_iters = field["max_iters"],
                     !.pupil_tol = field["pupil_tol"], !.mse_tol = field["mse_tol"]]

\* ------------------------------------------------ the Zernike decomposition

Min(a, b) == IF a <= b THEN a ELSE b

abs(x) == IF x < 0 THEN 0 - x ELSE x

\* zernike.noll2name: Noll order -> name, orders 1..CatLen
zernike_names_dict == [order \in 1..CatLen |-> <<"noll2name", order>>]

\* ZernikeDecomposition.ordered_coeff_names
ordered_coeff_names == [i \in 1..CatLen |-> zernike_names_dict[i]]

\* ZernikeDecomposition.ZernikePolynomial
ZernikePolynomial(order, name, value, in_tolerance) ==
    [order |-> order, name |-> name, value |-> value, in_tolerance |-> in_tolerance]

\* an initialisation that fills the list only when it is empty
initialize_only_once(polys) == IF polys # <<>> THEN polys ELSE [k \in 1..CatLen |-> ZernikePolynomial(k, zernike_names_dict[k], 0, "None")]

\* initialize_polynomial_list that appends to the list it finds
initialize_without_clearing(polys) ==
    polys \o [k \in 1..CatLen |-> ZernikePolynomial(k, zernike_names_dict[k], 0, "None")]

\* ZernikeDecomposition.initialize_polynomial_list: the list is emptied, one entry per
\* item of the dict is appended, and the list is sorted by order
initialize_polynomial_list(polys) ==
    LET emptied == SubSeq(polys, 1, 0)
    IN emptied \o [k \in 1..CatLen |-> ZernikePolynomial(k, zernike_names_dict[k], 0, "None")]

\* the comparison of decomposition_from_phase_retrieval made non-strict
in_tolerance_or_equal(phase_coefficient, phase_tolerance) ==
    IF abs(phase_coefficient) <= phase_tolerance THEN "True" ELSE "False"

\* abs(phase_coefficient) < phase_tolerance
in_tolerance(phase_coefficient, phase_tolerance) ==
    IF abs(phase_coefficient) < phase_tolerance THEN "True" ELSE "False"

\* ZernikeDecomposition.decomposition_from_phase_retrieval: the slice of pcoefs, the
\* zip with the list, the two assignments
decomposition_from_phase_retrieval(polys, pcoefs, phase_tolerance) ==
    LET ordered_phase_coefficients ==
            SubSeq(pcoefs, 1, Min(Len(pcoefs), Len(ordered_coeff_names)))
        zipped == Min(Len(polys), Len(ordered_phase_coefficients))
    IN [i \in 1..Len(polys) |->
          IF i <= zipped
          THEN [polys[i] EXCEPT
                  !.value = ordered_phase_coefficients[i],
                  !.in_tolerance = in_tolerance(ordered_phase_coefficients[i],
                                                phase_tolerance)]
          ELSE polys[i]]

\* coefficient sequences of a result: longer than, shorter than and as long as the
\* list of names, and empty
RunCoefs == << <<0 - 1, 1, 1, 0>>, <<1>>, <<1, 0 - 1, 0>>, <<>> >>

\* PhaseRetrievalResult.fit_to_zernikes(120) and zd_result.pcoefs: the coefficients are
\* determined by the result they are fitted to
fit_to_zernikes(result) == RunCoefs[(result % Len(RunCoefs)) + 1]

Init ==
    /\ field = [f \in RequiredFields |->
                  IF f = "max_iters" THEN MaxIters
                  ELSE IF f = "pupil_tol" THEN DefaultPupilTol
                  ELSE IF f = "mse_tol" THEN DefaultMseTol
                  ELSE 0]
    /\ psf_data = None
    /\ z_size = NoSize
    /\ xy_size = NoSize
    /\ is_initiated = FALSE
    /\ pr_state = [current_iter |-> 0, current_pupil_diff |-> 0, current_mse_diff |-> 0,
                   current_state |-> NotStarted, pr_finished |-> FALSE]
    /\ pr_button = "initiate_pr"
    /\ workers = [r \in 1..MaxRuns |-> NoWorker]
    /\ pr_thread = 0
    /\ pollPending = 0
    /\ mainPc = "idle"
    /\ outcome = "none"
    /\ edits = 0
    /\ flips = 0
    /\ catalog = initialize_polynomial_list(<<>>)
    /\ classified_by = 0
    /\ pr_result = 0
    /\ renders = <<>>
    /\ stream = [buf |-> <<>>, pos |-> 0]
    /\ jvm = "running"
    /\ process = "mainloop"


\* ------------------------------------------------ handlers of the main thread

\* PrStatusFrame.update_status, the trace callback of MAX_ITER and current_iter
update_status(name, s) ==
    IF name = "MAX_ITER" THEN [s EXCEPT !.current_iter = 0] ELSE s

\* The user types into the entry of parameter f; the entry writes the tk variable.
EditField(f, v) ==
    /\ mainPc = "idle"
    /\ edits < MaxEdits
    /\ v # field[f]
    /\ field' = [field EXCEPT ![f] = v]
    /\ pr_state' = update_status(IF f = "max_iters" THEN "MAX_ITER" ELSE f, pr_state)
    /\ edits' = edits + 1
    /\ outcome' = "none"
    /\ UNCHANGED <<psf_data, z_size, xy_size, is_initiated, pr_button, workers, pr_thread,
                   pollPending, mainPc, flips, results>>
    /\ UNCHANGED <<renders, outside>>

\* np.asarray of StackZ planes as the reader returns them
image_data(plane) ==
    IF plane = "gray" THEN <<StackZ, StackXY, StackXY>> ELSE <<StackZ, StackXY, StackXY, 3>>

\* what PsfImageDataAndParameters(psf_file_path) raises: an AssertionError for a format
\* or parameters it does not support, the error of the system for a path that cannot
\* be opened, a KeyError for a tiff without a description
LoadFailures == {"AssertionError", "FileNotFoundError", "KeyError"}

\* a load that shows no warning for an exception
read_without_warning(raised) == IF raised = "none" THEN "load_ok" ELSE "none"

\* the try statement of read_data_and_parameters: the warning shown for the exception
\* raised, or the else branch
read_data_and_parameters(raised) ==
    IF raised = "none" THEN "load_ok"
    ELSE IF raised = "AssertionError" THEN "warn_unsupported"
    ELSE "warn_invalid_path"

\* PsfandFitParameters.read_data_and_parameters and MainWindow.load_psf_file
LoadPsfFile(result, plane) ==
    /\ mainPc = "idle"
    /\ IF result = "load_ok"
       THEN /\ field' = [field EXCEPT !["na"] = 1, !["ni"] = 1, !["res"] = 1, !["zres"] = 1]
            /\ xy_size' = StackXY
            /\ z_size' = StackZ
            /\ psf_data' = image_data(plane)
            /\ is_initiated' = TRUE
            /\ pr_result' = 0
            /\ catalog' = initialize_polynomial_list(catalog)
            /\ classified_by' = 0
       ELSE /\ is_initiated' = FALSE
            /\ UNCHANGED <<field, psf_data, z_size, xy_size, results>>
    /\ outcome' = result
    /\ UNCHANGED <<pr_state, pr_button, workers, pr_thread, pollPending, mainPc, edits, flips>>
    /\ UNCHANGED <<renders, outside>>

\* MainWindow.initiate_pr up to and including pr_thread.start()
InitiatePr ==
    /\ mainPc = "idle"
    /\ pr_button = "initiate_pr"
    /\ outcome' = verify
    /\ IF verify = "started"
       THEN /\ pr_thread < MaxRuns
            /\ pr_state' = reset_state(pr_state)
            /\ workers' = [r \in 1..MaxRuns |->
                             IF r = pr_thread + 1 THEN NewWorker
                             ELSE IF IsAlive(workers[r]) THEN workers[r] ELSE NoWorker]
            /\ pr_thread' = pr_thread + 1
            /\ mainPc' = "starting"
            /\ flips' = 0
            /\ catalog' = initialize_polynomial_list(catalog)
            /\ classified_by' = 0
       ELSE UNCHANGED <<pr_state, workers, pr_thread, mainPc, flips, catalog, classified_by>>
    /\ UNCHANGED <<params, pr_button, pollPending, edits, pr_result>>
    /\ UNCHANGED <<renders, outside>>

\* MainWindow.initiate_pr after pr_thread.start(): button, status text, first poll
InitiatePrReturn ==
    /\ mainPc = "starting"
    /\ pr_button' = button_after_start
    /\ pr_state' = [pr_state EXCEPT !.current_state = Running]
    /\ pollPending' = pollPending + 1
    /\ mainPc' = "idle"
    /\ UNCHANGED <<params, workers, pr_thread, outcome, edits, flips, results>>
    /\ UNCHANGED <<renders, outside>>

\* MainWindow.stop_pr
StopPr ==
    /\ mainPc = "idle"
    /\ pr_button = "stop_pr"
    /\ LET w == workers[pr_thread]
           first == IsAlive(w) /\ w.cancelAt = -1
       IN workers' = [workers EXCEPT ![pr_thread] =
                        [stop_pr_set(w) EXCEPT
                                  !.cancelAt = IF first THEN w.iter ELSE w.cancelAt,
                                  !.cancelLate = IF first THEN w.pc = "store" ELSE w.cancelLate]]
    /\ outcome' = "none"
    /\ UNCHANGED <<params, pr_state, pr_button, pr_thread, pollPending, mainPc, edits, flips,
                   results>>
    /\ UNCHANGED <<renders, outside>>

\* MainWindow.check_pr_results while the thread is alive
CheckPrResultsAlive ==
    /\ mainPc = "idle"
    /\ pollPending > 0
    /\ is_alive(workers[pr_thread])
    /\ outcome' = "none"
    /\ IF pr_state.current_iter > 0 /\ pr_state.current_iter % 5 = 0
       THEN /\ Len(renders) < MaxRenders
            /\ renders' = Append(renders, pr_state.current_iter)
       ELSE UNCHANGED renders
    /\ UNCHANGED <<params, pr_state, pr_button, workers, pr_thread, pollPending, mainPc,
                   edits, flips, results>>
    /\ UNCHANGED outside

\* MainWindow.check_pr_results once the thread has stopped; rendered is whether
\* display_pr_results and display_zd_results return or raise (before the catalog is
\* touched), pcoefs what fit_to_zernikes has computed
CheckPrResultsStopped(rendered, pcoefs) ==
    /\ mainPc = "idle"
    /\ pollPending > 0
    /\ ~is_alive(workers[pr_thread])
    /\ pollPending' = pollPending - 1
    /\ IF rendered
       THEN /\ pr_button' = "initiate_pr"
            /\ pr_state' = [pr_state EXCEPT !.pr_finished = TRUE]
            /\ flips' = IF pr_state.pr_finished THEN flips ELSE flips + 1
            /\ outcome' = "none"
            /\ catalog' = decomposition_from_phase_retrieval(catalog, pcoefs, DefaultPhaseTol)
            /\ classified_by' = pr_thread
       ELSE /\ outcome' = "render_error"
            /\ UNCHANGED <<pr_state, pr_button, flips, catalog, classified_by>>
    /\ workers' = [workers EXCEPT ![pr_thread] = IF IsAlive(@) THEN @ ELSE Ended(@)]
    /\ UNCHANGED <<params, pr_thread, mainPc, edits, pr_result>>
    /\ UNCHANGED <<renders, outside>>

\* --------------------------------------------- steps of a background thread

\* the policy with the mean-square error tested before the pupil function
Policy_mse_first(pupil_diff, mse_diff, iter, max_iters, pupil_tol, mse_tol, cancelled) ==
    IF cancelled THEN Cancelled
    ELSE IF mse_diff < mse_tol THEN MseConverged
    ELSE IF pupil_diff < pupil_tol THEN PupilConverged
    ELSE IF iter >= max_iters THEN MaxReached
    ELSE Continue

\* the policy that stops one iteration late
Policy_one_more(pupil_diff, mse_diff, iter, max_iters, pupil_tol, mse_tol, cancelled) ==
    IF cancelled THEN Cancelled
    ELSE IF pupil_diff < pupil_tol THEN PupilConverged
    ELSE IF mse_diff < mse_tol THEN MseConverged
    ELSE IF iter > max_iters THEN MaxReached
    ELSE Continue

\* ConvergencePolicy: first match wins
ConvergencePolicy(pupil_diff, mse_diff, iter, max_iters, pupil_tol, mse_tol, cancelled) ==
    IF cancelled THEN Cancelled
    ELSE IF pupil_diff < pupil_tol THEN PupilConverged
    ELSE IF mse_diff < mse_tol THEN MseConverged
    ELSE IF iter >= max_iters THEN MaxReached
    ELSE Continue

\* (1) the cancellation check at the top of the loop
WCheckCancel(r) ==
    /\ workers[r].pc = "check"
    /\ workers' = [workers EXCEPT ![r] =
                     IF @.stop_pr THEN [@ EXCEPT !.decision = Cancelled, !.pc = "store"]
                     ELSE [@ EXCEPT !.pc = "solve"]]
    /\ UNCHANGED <<params, pr_state, pr_button, pr_thread, pollPending, mainPc, outcome,
                   edits, flips, results>>
    /\ UNCHANGED <<renders, outside>>

\* (2), (3) one solver step and the increment of the iteration; the step may raise.
\* The step stores its outcome in the PhaseRetrievalResult object the thread was given.
WSolverStep(r, failed, pd, md) ==
    /\ workers[r].pc = "solve"
    /\ workers' = [workers EXCEPT ![r] =
                     IF failed THEN [@ EXCEPT !.decision = SolverFailure, !.pc = "store"]
                     ELSE [@ EXCEPT !.pupil_diff = pd, !.mse_diff = md,
                                    !.iter = @ + 1, !.pc = "write_iter"]]
    /\ pr_result' = IF failed THEN pr_result ELSE workers[r].iter + 1
    /\ UNCHANGED <<params, pr_state, pr_button, pr_thread, pollPending, mainPc, outcome,
                   edits, flips, catalog, classified_by>>
    /\ UNCHANGED <<renders, outside>>

\* (4) the writes into PrState, one field at a time
WWriteIter(r) ==
    /\ workers[r].pc = "write_iter"
    /\ pr_state' = update_status("PY_VAR", [pr_state EXCEPT !.current_iter = workers[r].iter])
    /\ workers' = [workers EXCEPT ![r].pc = "write_pupil"]
    /\ UNCHANGED <<params, pr_button, pr_thread, pollPending, mainPc, outcome, edits, flips,
                   results>>
    /\ UNCHANGED <<renders, outside>>

WWritePupilDiff(r) ==
    /\ workers[r].pc = "write_pupil"
    /\ pr_state' = [pr_state EXCEPT !.current_pupil_diff = workers[r].pupil_diff]
    /\ workers' = [workers EXCEPT ![r].pc = "write_mse"]
    /\ UNCHANGED <<params, pr_button, pr_thread, pollPending, mainPc, outcome, edits, flips,
                   results>>
    /\ UNCHANGED <<renders, outside>>

WWriteMseDiff(r) ==
    /\ workers[r].pc = "write_mse"
    /\ pr_state' = [pr_state EXCEPT !.current_mse_diff = workers[r].mse_diff]
    /\ workers' = [workers EXCEPT ![r].pc = "policy"]
    /\ UNCHANGED <<params, pr_button, pr_thread, pollPending, mainPc, outcome, edits, flips,
                   results>>
    /\ UNCHANGED <<renders, outside>>

\* (5) the convergence policy is consulted
WPolicy(r) ==
    /\ workers[r].pc = "policy"
    /\ LET w == workers[r]
           d == ConvergencePolicy(w.pupil_diff, w.mse_diff, w.iter, w.max_iters,
                                  w.pupil_tol, w.mse_tol, w.stop_pr)
       IN workers' = [workers EXCEPT ![r] =
                        [@ EXCEPT !.decision = d,
                                  !.pc = IF d = Continue THEN "check" ELSE "store"]]
    /\ UNCHANGED <<params, pr_state, pr_button, pr_thread, pollPending, mainPc, outcome,
                   edits, flips, results>>
    /\ UNCHANGED <<renders, outside>>

\* the reason is stored as the status message and the thread ends
WStoreReason(r) ==
    /\ workers[r].pc = "store"
    /\ pr_state' = [pr_state EXCEPT !.current_state = workers[r].decision]
    /\ workers' = [workers EXCEPT ![r].pc = "dead"]
    /\ UNCHANGED <<params, pr_button, pr_thread, pollPending, mainPc, outcome, edits, flips,
                   results>>
    /\ UNCHANGED <<renders, outside>>

Worker(r) ==
    \/ WCheckCancel(r)
    \/ \E pd \in 0..MaxDiff, md \in 0..MaxDiff : WSolverStep(r, FALSE, pd, md)
    \/ WSolverStep(r, TRUE, 0, 0)
    \/ WWriteIter(r)
    \/ WWritePupilDiff(r)
    \/ WWriteMseDiff(r)
    \/ WPolicy(r)
    \/ WStoreReason(r)

\* ------------------------------------------------------------ the reports

\* The characters of a status message, in pieces: a newline and the last character of
\* the message are pieces of their own
Text(s) ==
    CASE s = NotStarted -> <<"Phase retrieval not started ye", "t">>
      [] s = Running -> <<"Phase retrieval running..", ".">>
      [] s = Cancelled -> <<"Phase retrieval cancelled by user", ".">>
      [] s = PupilConverged -> <<"Pupil function converged", ".">>
      [] s = MseConverged -> <<"Mean-square error converged", ".">>
      [] s = MaxReached -> <<"Maximum iterations reached", ".">>
      [] s = SolverFailure -> <<"Solver failure", ".">>
      [] s = TwoLines -> <<"Maximum iterations reached.", "\n",
                           "Phase retrieval did not converge", ".">>

\* str() and "{}".format() of a small number
str(n) == <<"0", "1", "2", "3", "4", "5", "6", "7", "8", "9">>[n + 1]

\* str.split('\n')
RECURSIVE split(_)
split(text) ==
    IF \A i \in 1..Len(text) : text[i] # "\n" THEN <<text>>
    ELSE LET k == CHOOSE i \in 1..Len(text) :
                      text[i] = "\n" /\ \A j \in 1..(i - 1) : text[j] # "\n"
         IN <<SubSeq(text, 1, k - 1)>> \o split(SubSeq(text, k + 1, Len(text)))

\* str.replace("\n", " ")
replace_newlines(text) == [i \in 1..Len(text) |-> IF text[i] = "\n" THEN " " ELSE text[i]]

\* string[:-1]
but_last(text) == SubSeq(text, 1, Len(text) - 1)

\* c.drawString(x, y, text)
drawString(x, y, text) == [x |-> x, y |-> y, text |-> text]

\* PdfReport.create_pdf_report, the description of why and when the algorithm ended:
\* what each of the three if statements draws
status_layouts(current_state, current_iter, max_iters) ==
    LET condition_strings == split(Text(current_state))
        first ==
            IF Len(condition_strings) = 1
            THEN << <<drawString(395, 340, but_last(condition_strings[1])
                                  \o <<" after ", str(current_iter), " iterations.">>)>> >>
            ELSE <<>>
        second ==
            IF Len(condition_strings) = 2 /\ current_iter = max_iters
            THEN << <<drawString(395, 355, condition_strings[1]),
                      drawString(395, 340, condition_strings[2])>> >>
            ELSE <<>>
        third ==
            IF Len(condition_strings) = 2 /\ current_iter < max_iters
            THEN << <<drawString(395, 355, <<"During iteration ", str(current_iter), " / ",
                                             str(max_iters), " ">>),
                      drawString(395, 340, condition_strings[2])>> >>
            ELSE <<>>
    IN first \o second \o third

\* worksheet.write(row, col, content)
write(row, col, content) == <<row, col, content>>

\* PsfandFitParameters.psf_parameter_dict and fit_parameter_dict, in the order of
\* their keys
psf_parameter_dict == [i \in 1..5 |-> LET k == <<"wl", "na", "ni", "res", "zres">>[i]
                                     IN <<k, field[k]>>]

fit_parameter_dict == [i \in 1..3 |-> LET k == <<"max_iters", "pupil_tol", "mse_tol">>[i]
                                     IN <<k, field[k]>>]

\* add_parameter_entries of ZdResultWorkbook.add_entries
add_parameter_entries(start_row, start_col, param_dict) ==
    LET unit(k) == IF k \in {"wl", "res", "zres"} THEN "nm"
                   ELSE IF k = "phase_tol" THEN "lambda" ELSE ""
        label(k) == IF unit(k) # "" THEN <<"name", k, " in ", unit(k)>> ELSE <<"name", k>>
        entry(i) == <<write(start_row + i - 1, start_col, label(param_dict[i][1])),
                      write(start_row + i - 1, start_col + 1, param_dict[i][2])>>
        RECURSIVE entries(_)
        entries(i) == IF i > Len(param_dict) THEN <<>> ELSE entry(i) \o entries(i + 1)
    IN entries(1)

\* the row of the polynomial one above where add_entries writes it
polynomial_row_10(row) == row + 10

\* the row of the polynomial with index row (from 0) of the list
polynomial_row(row) == row + 11

\* ZdResultWorkbook.add_entries: the writes in the order they are made
add_entries(psf_path, psf_param_dict, fit_param_dict, state, polynomials) ==
    LET RECURSIVE rows(_)
        rows(row) ==
            IF row >= Len(polynomials) THEN <<>>
            ELSE << write(polynomial_row(row), 0, polynomials[row + 1].order),
                    write(polynomial_row(row), 1, polynomials[row + 1].name),
                    write(polynomial_row(row), 2,
                          [number |-> polynomials[row + 1].value, num_format |-> "0.00"]) >>
                 \o rows(row + 1)
    IN << write(0, 0, psf_path), write(2, 0, "PSF Parameters") >>
       \o add_parameter_entries(3, 0, psf_param_dict)
       \o << write(2, 2, "Phase Retrieval Parameters") >>
       \o add_parameter_entries(3, 2, fit_param_dict)
       \o << write(6, 2, <<"Phase retrieval stopped after iteration ",
                            str(state.current_iter), " out of ",
                            str(fit_param_dict[1][2]), ".">>),
              write(7, 2, replace_newlines(Text(state.current_state))),
              write(9, 0, "Zernike Decomposition Results"),
              write(10, 0, "Noll Order"), write(10, 1, "Noll Name"), write(10, 2, "Value") >>
       \o rows(0)

\* The worksheet after a sequence of writes: a later write to a cell replaces an
\* earlier one
Worksheet(writes) ==
    LET at(cell) == {i \in 1..Len(writes) : writes[i][1] = cell[1] /\ writes[i][2] = cell[2]}
        last(cell) == CHOOSE i \in at(cell) : \A j \in at(cell) : j <= i
    IN [cell \in {<<writes[i][1], writes[i][2]>> : i \in 1..Len(writes)} |->
           writes[last(cell)][3]]

\* The save buttons are enabled by the trace on pr_finished (toggle_buttons)
SaveButtonsEnabled == pr_state.pr_finished

\* A tk variable of a parameter cannot be read: its entry is empty
SomeEntryEmpty == \E f \in RequiredFields : field[f] = EMPTY

\* a report that sets the values of the polynomials it has written to zero
polynomials_reset_by_report(polys) == [i \in 1..Len(polys) |-> [polys[i] EXCEPT !.value = 0]]

\* The list of polynomials after a report has iterated over it: the reports assign to
\* none of its entries
polynomials_after_report(polys) == polys

\* what open(save_file, "wb") and f.write can end in: nothing, a directory that does
\* not exist, a file or directory that may not be written, another error of the system
WriteFailures == {"none", "FileNotFoundError", "PermissionError", "OSError"}

\* try: open and write; except FileNotFoundError: showwarning. What the handler ends
\* in: the file saved, the warning shown, or the exception it does not catch
caught_FileNotFoundError(failure) ==
    IF failure = "none" THEN "png_saved"
    ELSE IF failure = "FileNotFoundError" THEN "warn_file_path"
    ELSE failure

\* ResultButtonFrame.save_pr_image
save_pr_image(failure) ==
    /\ mainPc = "idle"
    /\ SaveButtonsEnabled
    /\ outcome' = caught_FileNotFoundError(failure)
    /\ UNCHANGED <<params, pr_state, pr_button, workers, pr_thread, pollPending, mainPc,
                   edits, flips, results>>
    /\ UNCHANGED <<renders, outside>>

\* ResultButtonFrame.save_zd_image
save_zd_image(failure) ==
    /\ mainPc = "idle"
    /\ SaveButtonsEnabled
    /\ outcome' = caught_FileNotFoundError(failure)
    /\ UNCHANGED <<params, pr_state, pr_button, workers, pr_thread, pollPending, mainPc,
                   edits, flips, results>>
    /\ UNCHANGED <<renders, outside>>

\* ResultButtonFrame.save_zd_values; written is whether the file can be written
save_zd_values(written) ==
    /\ mainPc = "idle"
    /\ SaveButtonsEnabled
    /\ outcome' = IF SomeEntryEmpty \/ ~written THEN "xlsx_failed" ELSE "xlsx_saved"
    /\ catalog' = polynomials_after_report(catalog)
    /\ UNCHANGED <<params, pr_state, pr_button, workers, pr_thread, pollPending, mainPc,
                   edits, flips, classified_by, pr_result>>
    /\ UNCHANGED <<renders, outside>>

\* ResultButtonFrame.generate_pdf_report; written is whether the images can be read
\* and the file written
generate_pdf_report(written) ==
    /\ mainPc = "idle"
    /\ SaveButtonsEnabled
    /\ outcome' = IF SomeEntryEmpty \/ ~written THEN "pdf_failed" ELSE "pdf_saved"
    /\ catalog' = polynomials_after_report(catalog)
    /\ UNCHANGED <<params, pr_state, pr_button, workers, pr_thread, pollPending, mainPc,
                   edits, flips, classified_by, pr_result>>
    /\ UNCHANGED <<renders, outside>>

Next ==
    \/ \E f \in RequiredFields : \E v \in FieldValues(f) : EditField(f, v)
    \/ \E plane \in {"gray", "rgb"} : LoadPsfFile(read_data_and_parameters("none"), plane)
    \/ \E raised \in LoadFailures : LoadPsfFile(read_data_and_parameters(raised), "gray")
    \/ InitiatePr
    \/ InitiatePrReturn
    \/ StopPr
    \/ CheckPrResultsAlive
    \/ CheckPrResultsStopped(TRUE, fit_to_zernikes(pr_result))
    \/ CheckPrResultsStopped(FALSE, <<>>)
    \/ \E written \in BOOLEAN : save_zd_values(written)
    \/ \E written \in BOOLEAN : generate_pdf_report(written)
    \/ \E r \in 1..MaxRuns : Worker(r)

Spec == Init /\ [][Next]_vars

\* ------------------------------------------------------------ the result functions
\* The functions of the list of polynomials on their own: each step calls one of them
\* on the list as the calls before have left it.

\* raw coefficient lists: shorter than, as long as and longer than the list of names
Coefs == UNION {[1..n -> (0 - MaxCoef)..MaxCoef] : n \in 0..(CatLen + 1)}

\* phase tolerances
PhaseTols == 1..MaxPhaseTol

\* ZernikeDecomposition.initialize_polynomial_list()
InitializePolynomialList ==
    /\ catalog' = initialize_polynomial_list(catalog)
    /\ outcome' = "initialized"
    /\ UNCHANGED <<params, pr_state, pr_button, workers, pr_thread, pollPending, mainPc,
                   edits, flips, classified_by, pr_result>>
    /\ UNCHANGED <<renders, outside>>

\* ZernikeDecomposition.decomposition_from_phase_retrieval(pr_results, phase_tolerance)
DecompositionFromPhaseRetrieval(pcoefs, phase_tolerance) ==
    /\ catalog' = decomposition_from_phase_retrieval(catalog, pcoefs, phase_tolerance)
    /\ outcome' = "classified"
    /\ UNCHANGED <<params, pr_state, pr_button, workers, pr_thread, pollPending, mainPc,
                   edits, flips, classified_by, pr_result>>
    /\ UNCHANGED <<renders, outside>>

ResultNext ==
    \/ InitializePolynomialList
    \/ \E pcoefs \in Coefs, phase_tolerance \in PhaseTols :
          DecompositionFromPhaseRetrieval(pcoefs, phase_tolerance)

ResultSpec == Init /\ [][ResultNext]_vars

\* ------------------------------------------------------------ the image streams
\* A BytesIO of ResultImageStreams on its own: figures of every length are stored in
\* it, and between two of them a reader moves the position.

\* the bytes of the png of a figure: figure n has n bytes, each unlike the bytes of
\* every other figure
png(figure) == [i \in 1..figure |-> <<"png", figure, i>>]

\* BytesIO.truncate() without a size: the bytes from the position on are dropped; a
\* position behind the end leaves the bytes as they are
truncate(s) == [s EXCEPT !.buf = SubSeq(s.buf, 1, Min(s.pos, Len(s.buf)))]

\* BytesIO.seek(offset)
seek(s, offset) == [s EXCEPT !.pos = offset]

\* BytesIO.write(bytes), called by savefig with the position inside the buffer or at
\* its end: the bytes replace what is at the position and extend the buffer behind
\* its end; the position moves behind them
write_bytes(s, bytes) ==
    [buf |-> SubSeq(s.buf, 1, s.pos) \o bytes
               \o SubSeq(s.buf, s.pos + Len(bytes) + 1, Len(s.buf)),
     pos |-> s.pos + Len(bytes)]

\* ResultImageStreams.reset_image_stream(stream, image)
reset_image_stream(s, image) == write_bytes(seek(truncate(s), 0), png(image))

\* MainWindow.display_pr_results and display_zd_results store a figure
StoreFigure(image) ==
    /\ stream' = reset_image_stream(stream, image)
    /\ outcome' = "stored"
    /\ UNCHANGED <<params, pr_state, pr_button, workers, pr_thread, pollPending, mainPc,
                   edits, flips, results, renders, jvm, process>>

\* a reader of the stream (ImageReader of the report, the display) leaves the position
\* somewhere in the buffer
ReadStream(position) ==
    /\ position \in 0..Len(stream.buf)
    /\ stream' = seek(stream, position)
    /\ outcome' = "read"
    /\ UNCHANGED <<params, pr_state, pr_button, workers, pr_thread, pollPending, mainPc,
                   edits, flips, results, renders, jvm, process>>

StreamNext ==
    \/ \E image \in 1..MaxImage : StoreFigure(image)
    \/ \E position \in 0..MaxImage : ReadStream(position)

StreamSpec == Init /\ [][StreamNext]_vars

\* ------------------------------------------------------------ the report functions
\* The reports on their own, on every result a run can leave: the status message, the
\* iteration, the maximum of iterations and the classified list are drawn at the
\* start, and each step writes one report.

ReportInit ==
    /\ \E max_iters \in 1..MaxIters :
         field = [f \in RequiredFields |->
                     IF f = "max_iters" THEN max_iters
                     ELSE IF f = "pupil_tol" THEN DefaultPupilTol
                     ELSE IF f = "mse_tol" THEN DefaultMseTol ELSE 1]
    /\ psf_data = image_data("gray") /\ z_size = StackZ /\ xy_size = StackXY
    /\ is_initiated = TRUE
    /\ \E s \in StatusMessages, i \in 0..(MaxIters + 1) :
         pr_state = [current_iter |-> i, current_pupil_diff |-> 0, current_mse_diff |-> 0,
                     current_state |-> s, pr_finished |-> TRUE]
    /\ pr_button = "initiate_pr"
    /\ workers = [r \in 1..MaxRuns |-> NoWorker]
    /\ pr_thread = 0
    /\ pollPending = 0
    /\ mainPc = "idle"
    /\ outcome = "none"
    /\ edits = 0 /\ flips = 0
    /\ \E pcoefs \in Coefs, phase_tolerance \in PhaseTols :
         catalog = decomposition_from_phase_retrieval(initialize_polynomial_list(<<>>),
                                                      pcoefs, phase_tolerance)
    /\ classified_by = 0
    /\ pr_result = 0
    /\ renders = <<>>
    /\ stream = [buf |-> <<>>, pos |-> 0]
    /\ jvm = "running"
    /\ process = "mainloop"

ReportNext ==
    \/ \E written \in BOOLEAN : save_zd_values(written)
    \/ \E written \in BOOLEAN : generate_pdf_report(written)
    \/ \E failure \in WriteFailures : save_pr_image(failure)
    \/ \E failure \in WriteFailures : save_zd_image(failure)

ReportSpec == ReportInit /\ [][ReportNext]_vars

\* ------------------------------------------------------------ one long run
\* A run of up to PollIters iterations from the return of initiate_pr on: the thread
\* iterates while check_pr_results polls it.

PollInit ==
    /\ field = [f \in RequiredFields |->
                  IF f = "max_iters" THEN PollIters
                  ELSE IF f = "pupil_tol" THEN DefaultPupilTol
                  ELSE IF f = "mse_tol" THEN DefaultMseTol ELSE 1]
    /\ psf_data = image_data("gray") /\ z_size = StackZ /\ xy_size = StackXY
    /\ is_initiated = TRUE
    /\ pr_state = [current_iter |-> 0, current_pupil_diff |-> 0, current_mse_diff |-> 0,
                   current_state |-> Running, pr_finished |-> FALSE]
    /\ pr_button = button_after_start
    /\ workers = [r \in 1..MaxRuns |-> IF r = 1 THEN NewWorker ELSE NoWorker]
    /\ pr_thread = 1
    /\ pollPending = 1
    /\ mainPc = "idle"
    /\ outcome = "started"
    /\ edits = 0
    /\ flips = 0
    /\ catalog = initialize_polynomial_list(<<>>)
    /\ classified_by = 0
    /\ pr_result = 0
    /\ renders = <<>>
    /\ stream = [buf |-> <<>>, pos |-> 0]
    /\ jvm = "running"
    /\ process = "mainloop"

PollNext ==
    \/ StopPr
    \/ CheckPrResultsAlive
    \/ CheckPrResultsStopped(TRUE, fit_to_zernikes(pr_result))
    \/ CheckPrResultsStopped(FALSE, <<>>)
    \/ Worker(1)

PollSpec == PollInit /\ [][PollNext]_vars

\* ------------------------------------------------------------ a window without a file
\* The window before any file is loaded: the user has typed numbers into the entries
\* of the parameters, goes on typing and presses the start button.

EntryInit ==
    /\ field \in [RequiredFields -> 0..MaxIters]
    /\ \A f \in RequiredFields : field[f] \in FieldValues(f)
    /\ psf_data = None
    /\ z_size = NoSize
    /\ xy_size = NoSize
    /\ is_initiated = FALSE
    /\ pr_state = [current_iter |-> 0, current_pupil_diff |-> 0, current_mse_diff |-> 0,
                   current_state |-> NotStarted, pr_finished |-> FALSE]
    /\ pr_button = "initiate_pr"
    /\ workers = [r \in 1..MaxRuns |-> NoWorker]
    /\ pr_thread = 0
    /\ pollPending = 0
    /\ mainPc = "idle"
    /\ outcome = "none"
    /\ edits = 0
    /\ flips = 0
    /\ catalog = initialize_polynomial_list(<<>>)
    /\ classified_by = 0
    /\ pr_result = 0
    /\ renders = <<>>
    /\ stream = [buf |-> <<>>, pos |-> 0]
    /\ jvm = "running"
    /\ process = "mainloop"

EntryNext ==
    \/ \E f \in RequiredFields : \E v \in FieldValues(f) : EditField(f, v)
    \/ InitiatePr

EntrySpec == EntryInit /\ [][EntryNext]_vars

\* ------------------------------------------------------------ the two processes
\* The life of a process from its launch to its exit: the GUI (PR_applet_sized.py)
\* from the constructor of MainWindow to clean_up, the command-line driver
\* (retrieve_phase_from_image.py) from the parsed arguments to the workbook.

Exited == {"destroyed", "exited", "exited_with_error"}

ProcessInit ==
    /\ \E program \in {"gui", "cli"}, iters \in 0..MaxIters :
         /\ process = IF program = "gui" THEN "gui_launched" ELSE "cli_launched"
         /\ field = [f \in RequiredFields |->
                       IF f = "max_iters" THEN (IF program = "gui" THEN MaxIters ELSE iters)
                       ELSE IF f = "pupil_tol" THEN DefaultPupilTol
                       ELSE IF f = "mse_tol" THEN DefaultMseTol
                       ELSE IF f = "wl" /\ program = "cli" THEN 1
                       ELSE 0]
    /\ jvm = "not_started"
    /\ psf_data = None
    /\ z_size = NoSize
    /\ xy_size = NoSize
    /\ is_initiated = FALSE
    /\ pr_state = [current_iter |-> 0, current_pupil_diff |-> 0, current_mse_diff |-> 0,
                   current_state |-> NotStarted, pr_finished |-> FALSE]
    /\ pr_button = "initiate_pr"
    /\ workers = [r \in 1..MaxRuns |-> NoWorker]
    /\ pr_thread = 0
    /\ pollPending = 0
    /\ mainPc = "idle"
    /\ outcome = "none"
    /\ edits = 0
    /\ flips = 0
    /\ catalog = initialize_polynomial_list(<<>>)
    /\ classified_by = 0
    /\ pr_result = 0
    /\ renders = <<>>
    /\ stream = [buf |-> <<>>, pos |-> 0]

\* javabridge.start_vm: first statement of MainWindow.__init__ after tk.Tk.__init__,
\* and of the driver after the arguments are parsed
start_vm ==
    /\ process \in {"gui_launched", "cli_launched"}
    /\ jvm' = "running"
    /\ process' = IF process = "gui_launched" THEN "mainloop" ELSE "cli_reading"
    /\ UNCHANGED <<params, pr_state, pr_button, workers, pr_thread, pollPending, mainPc,
                   outcome, edits, flips, results, renders, stream>>

\* MainWindow.clean_up up to and including javabridge.kill_vm(); ok is the answer to
\* "Do you want to quit?"
clean_up(ok) ==
    /\ process = "mainloop"
    /\ mainPc = "idle"
    /\ IF ok THEN jvm' = "killed" /\ process' = "vm_killed"
       ELSE UNCHANGED <<jvm, process>>
    /\ outcome' = IF ok THEN "quit" ELSE "quit_cancelled"
    /\ UNCHANGED <<params, pr_state, pr_button, workers, pr_thread, pollPending, mainPc,
                   edits, flips, results, renders, stream>>

\* MainWindow.clean_up: self.destroy()
destroy ==
    /\ process = "vm_killed"
    /\ process' = "destroyed"
    /\ UNCHANGED <<params, pr_state, pr_button, workers, pr_thread, pollPending, mainPc,
                   outcome, edits, flips, results, renders, stream, jvm>>

\* the driver constructs PsfImageDataAndParameters; raised is the exception of the
\* constructor, which ends the driver with a traceback
CliRead(raised, plane) ==
    /\ process = "cli_reading"
    /\ IF raised = "none"
       THEN /\ process' = "cli_read"
            /\ field' = [field EXCEPT !["na"] = 1, !["ni"] = 1, !["res"] = 1, !["zres"] = 1]
            /\ psf_data' = image_data(plane)
            /\ xy_size' = StackXY
            /\ z_size' = StackZ
            /\ outcome' = "none"
       ELSE /\ process' = "exited_with_error"
            /\ outcome' = raised
            /\ UNCHANGED <<field, psf_data, z_size, xy_size>>
    /\ UNCHANGED <<is_initiated, pr_state, pr_button, workers, pr_thread, pollPending, mainPc,
                   edits, flips, results, renders, stream, jvm>>

\* the driver: javabridge.kill_vm() after the constructor has returned
kill_vm ==
    /\ process = "cli_read"
    /\ jvm' = "killed"
    /\ process' = "cli_checking"
    /\ UNCHANGED <<params, pr_state, pr_button, workers, pr_thread, pollPending, mainPc,
                   outcome, edits, flips, results, renders, stream>>

\* the driver: the assertions on the arguments, then the thread is constructed from
\* the arguments and started
CliStart ==
    /\ process = "cli_checking"
    /\ IF \E f \in FitFields \cup {"wl"} : field[f] <= 0
       THEN /\ process' = "exited_with_error"
            /\ outcome' = "AssertionError"
            /\ UNCHANGED <<workers, pr_thread>>
       ELSE /\ process' = "cli_following"
            /\ outcome' = "started"
            /\ workers' = [workers EXCEPT ![1] = NewWorker]
            /\ pr_thread' = 1
    /\ UNCHANGED <<params, pr_state, pr_button, pollPending, mainPc, edits, flips, results,
                   renders, stream, jvm>>

\* the driver: one turn of the loop that follows the thread, and the way out of it
CliFollow ==
    /\ process = "cli_following"
    /\ IF IsAlive(workers[1])
       THEN /\ outcome' = "following"
            /\ UNCHANGED process
       ELSE /\ outcome' = pr_state.current_state
            /\ process' = "cli_plotting"
    /\ UNCHANGED <<params, pr_state, pr_button, workers, pr_thread, pollPending, mainPc,
                   edits, flips, results, renders, stream, jvm>>

\* the driver: the three figures are plotted and saved, the result is fitted and
\* classified, and the workbook is written; written is whether all files could be
\* written
CliWrite(written) ==
    /\ process = "cli_plotting"
    /\ IF written
       THEN /\ catalog' = decomposition_from_phase_retrieval(catalog, fit_to_zernikes(pr_result),
                                                            DefaultPhaseTol)
            /\ classified_by' = pr_thread
            /\ process' = "exited"
            /\ outcome' = "xlsx_saved"
       ELSE /\ process' = "exited_with_error"
            /\ outcome' = "OSError"
            /\ UNCHANGED <<catalog, classified_by>>
    /\ UNCHANGED <<params, pr_state, pr_button, workers, pr_thread, pollPending, mainPc,
                   edits, flips, pr_result, renders, stream, jvm>>

ProcessNext ==
    \/ start_vm
    \/ \E ok \in BOOLEAN : clean_up(ok)
    \/ destroy
    \/ \E plane \in {"gray", "rgb"} : CliRead("none", plane)
    \/ \E raised \in LoadFailures : CliRead(raised, "gray")
    \/ kill_vm
    \/ CliStart
    \/ CliFollow
    \/ \E written \in BOOLEAN : CliWrite(written)
    \/ Worker(1)

ProcessSpec == ProcessInit /\ [][ProcessNext]_vars

\* A started thread is scheduled until it ends, whatever the main thread does
FairSpec == Spec /\ \A r \in 1..MaxRuns : WF_vars(Worker(r))


\* ------------------------------------------------------------------ claims

\* A step of the start handler: the main thread is idle and the step ends in one of
\* the outcomes of initiate_pr (a repeated request that ends the same way changes
\* nothing at all)
StartRequest == mainPc = "idle" /\ outcome' \in StartOutcomes /\ outcome' # outcome

NoRunBegins == UNCHANGED <<workers, pr_thread, pr_state, pollPending, pr_button, mainPc>>

MissingOrZero == \E f \in RequiredFields : field[f] \in {EMPTY, 0}

ShapeMismatch == psf_data # None /\ psf_data # <<z_size, xy_size, xy_size>>

\* C1: whenever a required field is missing (its entry is empty) or zero, a start
\* request ends in the validation warning and no run begins: no thread is created,
\* PrState is not reset, no poll is scheduled and the button still starts a run.
C1_MissingOrZeroIsValidationError ==
    [][(StartRequest /\ MissingOrZero) =>
          (outcome' = "warn_parameters" /\ NoRunBegins)]_vars

\* C2: whenever the stored stack has a shape other than (z_size, xy_size, xy_size), a
\* start request ends in a validation warning and no run begins, whatever the
\* parameter entries hold.
C2_ShapeMismatchIsValidationError ==
    [][(StartRequest /\ ShapeMismatch) =>
          (outcome' \in {"warn_parameters", "warn_shape"} /\ NoRunBegins)]_vars

\* C2 where every parameter entry holds a number (zero or not): the part of C2 that
\* does not meet the empty entry of C1
C2_ShapeMismatchWithNumbers ==
    [][(StartRequest /\ ShapeMismatch /\ \A f \in RequiredFields : field[f] # EMPTY) =>
          (outcome' \in {"warn_parameters", "warn_shape"} /\ NoRunBegins)]_vars

\* C2_ShapeMismatchWithNumbers witness: a start request on a mismatched stack with every parameter non-zero was
\* answered with the shape warning
C2_Witness ==
    /\ outcome = "warn_shape"
    /\ ShapeMismatch
    /\ \A f \in RequiredFields : field[f] >= 1
    /\ pr_thread = 0


\* The thread of the current run has not completed a solver step yet
NotYetStepped(w) == w.pc \in {"check", "solve"} /\ w.iter = 0

\* C3: on every successful start PrState is reset (iteration 0, both differences 0,
\* not finished) before the thread executes its first solver step, and the start
\* handler returns without waiting for the thread.
C3_ResetBeforeFirstStep ==
    /\ (pr_thread >= 1 /\ NotYetStepped(workers[pr_thread])) =>
          /\ pr_state.current_iter = 0
          /\ pr_state.current_pupil_diff = 0
          /\ pr_state.current_mse_diff = 0
          /\ pr_state.pr_finished = FALSE
    /\ mainPc = "starting" => ENABLED InitiatePrReturn

\* C3 witness: the second run has been started, the handler has returned and the
\* thread has not stepped yet
C3_Witness ==
    /\ pr_thread = 2
    /\ mainPc = "idle"
    /\ pr_button = "stop_pr"
    /\ NotYetStepped(workers[2])
    /\ pr_state.current_iter = 0

\* C4: between two starts the iteration counter of PrState never decreases, and once
\* pr_finished is true it does not change at all, whatever the front end does.
C4_IterationMonotone ==
    [][pr_thread' = pr_thread =>
          /\ pr_state'.current_iter >= pr_state.current_iter
          /\ pr_state.pr_finished => pr_state'.current_iter = pr_state.current_iter]_vars

\* A started run is over: its thread has ended, the main thread is idle and no poll
\* is scheduled any more
RunOver ==
    pr_thread >= 1 /\ mainPc = "idle" /\ ~IsAlive(workers[pr_thread]) /\ pollPending = 0

\* C5, all but "at least once": within one run pr_finished goes from false to true at
\* most once and only when the thread has ended and the poll has seen it; it goes back
\* to false only by the next start.
C5_FinishedAtMostOnce ==
    /\ [](flips = IF pr_state.pr_finished THEN 1 ELSE 0)
    /\ [](pr_state.pr_finished => pr_thread >= 1 /\ workers[pr_thread].pc = "joined")
    /\ [][(pr_state.pr_finished /\ ~pr_state'.pr_finished) => pr_thread' = pr_thread + 1]_vars
    /\ [][(~pr_state.pr_finished /\ pr_state'.pr_finished) =>
             (~IsAlive(workers[pr_thread]) /\ pr_thread' = pr_thread)]_vars

\* C5_FinishedAtMostOnce witness: the second run has finished as well
C5_Witness == pr_thread = 2 /\ pr_state.pr_finished /\ flips = 1

\* C5: within one run pr_finished goes from false to true exactly once: at most once
\* and in the order above, and a run that is over has had its one change.
C5_FinishedExactlyOnce ==
    /\ C5_FinishedAtMostOnce
    /\ [](RunOver => flips = 1)

\* C6: a started run that has terminated (its thread has ended and no poll is
\* scheduled any more) has pr_finished true and the button back on start.
C6_TerminatedRunIsFinished ==
    RunOver => (pr_state.pr_finished /\ pr_button = "initiate_pr")


\* C7: the policy is first-match-wins in the order cancelled, pupil difference below
\* its tolerance, mean-square-error difference below its tolerance, iteration at the
\* maximum: each time a thread consults it, the reason it gets is that of the first
\* condition that holds, and the loop goes on only if none holds.
C7_FirstMatchWins ==
    [][\A r \in 1..MaxRuns :
          (workers[r].pc = "policy" /\ workers'[r].pc # "policy") =>
             LET w == workers[r]
                 d == workers'[r].decision
                 pupil == w.pupil_diff < w.pupil_tol
                 mse == w.mse_diff < w.mse_tol
                 atmax == w.iter >= w.max_iters
             IN /\ w.stop_pr => d = Cancelled
                /\ (~w.stop_pr /\ pupil) => d = PupilConverged
                /\ (~w.stop_pr /\ ~pupil /\ mse) => d = MseConverged
                /\ (~w.stop_pr /\ ~pupil /\ ~mse /\ atmax) => d = MaxReached
                /\ (~w.stop_pr /\ ~pupil /\ ~mse /\ ~atmax) => d = Continue
                /\ workers'[r].pc = IF d = Continue THEN "check" ELSE "store"]_vars

\* C7 witness: both differences were below their tolerances and the reason chosen is
\* the pupil one
C7_Witness ==
    \E r \in 1..MaxRuns :
        /\ workers[r].pc = "store"
        /\ ~workers[r].stop_pr
        /\ workers[r].pupil_diff < workers[r].pupil_tol
        /\ workers[r].mse_diff < workers[r].mse_tol
        /\ workers[r].decision = PupilConverged

\* The thread has chosen its reason (and may have ended, the poll not having seen it)
Terminated(w) == w.pc \in {"store", "dead"}

\* No solver step of the thread has reported a difference below its tolerance
NeverBelowTolerance(w) ==
    w.iter = 0 \/ (w.pupil_diff >= w.pupil_tol /\ w.mse_diff >= w.mse_tol)

C10_OneWorker ==
    /\ [](Cardinality({r \in 1..MaxRuns : IsAlive(workers[r])}) <= 1)
    /\ [][pr_thread' # pr_thread =>
             (pr_thread = 0 \/ workers[pr_thread].pc = "joined")]_vars

\* C10 witness: the second thread is alive
C10_Witness == pr_thread = 2 /\ IsAlive(workers[2]) /\ workers[1].pc = "none"


\* A run is active: its thread has been started and has not ended
RunActive == pr_thread >= 1 /\ IsAlive(workers[pr_thread])

\* The step is one of the thread of the current run
ThreadStep == workers'[pr_thread].pc # workers[pr_thread].pc

\* C11: while a run is active the thread and the main thread share only PrState and
\* the stop_pr event: no handler of the main thread writes the PhaseRetrievalResult
\* object the thread stores its results in.
C11_OnlyProgressAndFlagShared ==
    [][(RunActive /\ pr_result' # pr_result) => ThreadStep]_vars

\* the fields of PrState the thread writes
Progress(s) ==
    <<s.current_iter, s.current_pupil_diff, s.current_mse_diff, s.current_state>>

\* C12: while a run is active only its thread writes current_iter, current_pupil_diff,
\* current_mse_diff and current_state, and current_iter is written in ascending order.
C12_ThreadIsOnlyWriter ==
    [][(RunActive /\ pr_thread' = pr_thread /\ Progress(pr_state') # Progress(pr_state))
          => (ThreadStep /\ pr_state'.current_iter >= pr_state.current_iter)]_vars

\* C13: whenever pr_finished is true, current_state is the reason the thread of that
\* run chose, and current_iter the iteration it chose it at.
C13_FinishedShowsReason ==
    pr_state.pr_finished =>
        /\ pr_state.current_state \in Reasons
        /\ pr_state.current_state = workers[pr_thread].decision
        /\ pr_state.current_iter = workers[pr_thread].iter

\* The entries of the list that a classification with pcoefs has paired with a
\* coefficient
Paired(pcoefs) == 1..Min(Len(pcoefs), Len(catalog))

\* C14: the classification pairs coefficient i with entry i for every i below the
\* shorter of the two lengths; a paired entry gets the coefficient as its value and is
\* within tolerance exactly when the absolute value is strictly below the tolerance,
\* never unclassified; coefficients beyond the list are ignored and neither the length
\* of the list nor the order of its ids changes.
C14_ClassifyPairsByPosition ==
    [][\A pcoefs \in Coefs, phase_tolerance \in PhaseTols :
          DecompositionFromPhaseRetrieval(pcoefs, phase_tolerance) =>
              /\ Len(catalog') = Len(catalog)
              /\ \A i \in 1..Len(catalog) :
                    /\ catalog'[i].order = catalog[i].order
                    /\ catalog'[i].name = catalog[i].name
              /\ \A i \in Paired(pcoefs) :
                    /\ catalog'[i].value = pcoefs[i]
                    /\ catalog'[i].in_tolerance # "None"
                    /\ catalog'[i].in_tolerance = "True" <=> abs(pcoefs[i]) < phase_tolerance]_vars

\* a list classified from more coefficients than it has entries, one of them exactly
\* at the tolerance and so outside it
C14_Witness ==
    /\ outcome = "classified"
    /\ catalog[1].value = 0 - 1 /\ catalog[1].in_tolerance = "False"
    /\ catalog[CatLen].value = 0 /\ catalog[CatLen].in_tolerance = "True"

\* the entries of the list behind the coefficients of the result
Trailing == (Len(fit_to_zernikes(pr_result)) + 1)..Len(catalog)

Fresh(polys) ==
    /\ Len(polys) = Len(ordered_coeff_names)
    /\ \A i \in 1..Len(polys) :
          /\ polys[i].order = i
          /\ polys[i].name = zernike_names_dict[i]
          /\ polys[i].value = 0
          /\ polys[i].in_tolerance = "None"

\* C16: initialising the list, after any sequence of initialisations and
\* classifications, gives the same length and the same ids in ascending order with
\* every value 0 and unclassified; initialising again changes nothing.
C16_InitializeRestoresFreshList ==
    [][InitializePolynomialList =>
          /\ Fresh(catalog')
          /\ Len(catalog') = Len(catalog)
          /\ initialize_polynomial_list(catalog') = catalog']_vars

\* the list has been initialised and is fresh
C16_Witness == outcome = "initialized" /\ Fresh(catalog)

ReportStep ==
    \E written \in BOOLEAN : save_zd_values(written) \/ generate_pdf_report(written)

\* C18: writing the table or the document, whether it succeeds or fails, leaves the
\* parameters, the state of the algorithm and every entry of the list as they were.
C18_ReportsChangeNothing ==
    [][ReportStep => UNCHANGED <<params, pr_state, catalog>>]_vars

\* the document could not be written because an entry is empty, and the classified
\* list and the finished state are still there
C18_Witness ==
    /\ outcome = "pdf_failed"
    /\ SomeEntryEmpty
    /\ pr_state.pr_finished
    /\ ~Fresh(catalog)

\* the table can be written: the button is enabled and every entry can be read
TableCanBeWritten == SaveButtonsEnabled /\ ~SomeEntryEmpty

\* the writes of the table for the present parameters, state and list
TableWrites == add_entries("psf_path", psf_parameter_dict, fit_parameter_dict, pr_state, catalog)

\* C19: the table has exactly one row per entry of the list, in the order of the list:
\* entry i (from 0) is at row 11 + i with order, name and value in columns 0, 1 and 2,
\* the value being the value of the entry; no entry is left out, written twice or out
\* of order, and no row of the list lies on the parameter blocks or the status lines.
C19_OneRowPerEntry ==
    TableCanBeWritten =>
        \A writes \in {TableWrites} : \A sheet \in {Worksheet(writes)} :
           /\ \A i \in 0..(Len(catalog) - 1) :
                /\ {<<11 + i, 0>>, <<11 + i, 1>>, <<11 + i, 2>>} \subseteq DOMAIN sheet
                /\ sheet[<<11 + i, 0>>] = catalog[i + 1].order
                /\ sheet[<<11 + i, 1>>] = catalog[i + 1].name
                /\ sheet[<<11 + i, 2>>].number = catalog[i + 1].value
           /\ {cell \in DOMAIN sheet : cell[1] >= 11}
                = {<<11 + i, c>> : i \in 0..(Len(catalog) - 1), c \in 0..2}
           /\ Cardinality({k \in 1..Len(writes) : writes[k][1] >= 11}) = 3 * Len(catalog)
           /\ sheet[<<10, 0>>] = "Noll Order"
           /\ sheet[<<7, 2>>] = replace_newlines(Text(pr_state.current_state))
           /\ \A i \in 1..Len(psf_parameter_dict) : sheet[<<2 + i, 1>>] = psf_parameter_dict[i][2]
           /\ \A i \in 1..Len(fit_parameter_dict) : sheet[<<2 + i, 3>>] = fit_parameter_dict[i][2]

\* a table has been written of a list whose first entry has a negative value and whose
\* last entry is unclassified
C19_Witness ==
    /\ outcome = "xlsx_saved"
    /\ TableCanBeWritten
    /\ catalog[1].value = 0 - 1
    /\ catalog[CatLen].in_tolerance = "None"
    /\ Worksheet(TableWrites)[<<11, 2>>] = [number |-> 0 - 1, num_format |-> "0.00"]

\* the document can be generated: the button is enabled and every entry can be read
PdfCanBeGenerated == SaveButtonsEnabled /\ ~SomeEntryEmpty

\* C20: for every status message, iteration and maximum of iterations with which the
\* document can be generated, exactly one of the three status layouts is drawn: for a
\* message of one line the message without its last character followed by
\* " after <iteration> iterations."; for a message of two lines both lines when the
\* iteration equals the maximum, and "During iteration <i> / <max>" with the second
\* line when the iteration is below it. No input draws none or two.
C20_ExactlyOneStatusLayout ==
    PdfCanBeGenerated =>
        \A layouts \in {status_layouts(pr_state.current_state, pr_state.current_iter,
                                         field["max_iters"])} :
            /\ Len(layouts) = 1
            /\ \A lines \in {split(Text(pr_state.current_state))} :
                  /\ Len(lines) = 1 =>
                        /\ Len(layouts[1]) = 1
                        /\ layouts[1][1].text = but_last(lines[1])
                              \o <<" after ", str(pr_state.current_iter), " iterations.">>
                  /\ Len(lines) = 2 =>
                        /\ Len(layouts[1]) = 2
                        /\ layouts[1][2].text = lines[2]
                        /\ pr_state.current_iter = field["max_iters"] =>
                              layouts[1][1].text = lines[1]
                        /\ pr_state.current_iter < field["max_iters"] =>
                              SubSeq(layouts[1][1].text, 1, 4)
                                = <<"During iteration ", str(pr_state.current_iter), " / ",
                                    str(field["max_iters"])>>

\* a step of one of the four handlers that save a result
SaveStep ==
    \/ \E failure \in WriteFailures : save_pr_image(failure) \/ save_zd_image(failure)
    \/ \E written \in BOOLEAN : save_zd_values(written) \/ generate_pdf_report(written)

\* what a handler that saves ends in when nothing fails, and when it has caught the
\* failure and shown a warning
Saved == {"png_saved", "xlsx_saved", "pdf_saved"}
Warned == {"warn_file_path", "xlsx_failed", "pdf_failed"}

\* C21: whichever of the four results is saved and whatever the failure of the write
\* (no such directory, permission denied, another I/O error), the handler that was
\* triggered catches it and shows a warning; the state of the session is as before
\* (finished stays true, result and list intact) and every operation is still there.
C21_WriteFailuresAreCaught ==
    [][SaveStep =>
          /\ outcome' \in Saved \cup Warned
          /\ UNCHANGED <<params, pr_state, results, pr_button>>
          /\ SaveButtonsEnabled']_vars

C23_ResetDiscardsPrevious ==
    [][\A image \in 1..MaxImage : StoreFigure(image) => stream'.buf = png(image)]_vars

\* how often check_pr_results has redrawn the results of the running thread at
\* iteration k
RendersAt(k) == Cardinality({i \in 1..Len(renders) : renders[i] = k})

\* C24: while a run is active the results are redrawn exactly once for each positive
\* multiple of 5 the iteration count reaches, and never at another iteration count.
C24_OneRenderPerFifthIteration ==
    /\ \A i \in 1..Len(renders) : renders[i] > 0 /\ renders[i] % 5 = 0
    /\ \A k \in 1..PollIters :
         k % 5 = 0 => /\ RendersAt(k) <= 1
                      /\ pr_state.current_iter > k => RendersAt(k) = 1

\* the two halves of C24 on their own
C24_NeverTwice == \A k \in 1..PollIters : RendersAt(k) <= 1

C24_NeverMissed == \A k \in 1..PollIters : k % 5 = 0 /\ pr_state.current_iter > k => RendersAt(k) = 1

C24_OnlyAtFifth == \A i \in 1..Len(renders) : renders[i] > 0 /\ renders[i] % 5 = 0

\* the thread r was started and check_pr_results has not yet seen it stopped
Unobserved(r) == workers[r].pc \notin {"none", "joined"}

LoadedStep == \E plane \in {"gray", "rgb"} : LoadPsfFile(read_data_and_parameters("none"), plane)

\* C26: a successful load, which resets the stored result and the list of polynomials,
\* leaves the four buttons disabled, and they stay disabled until the next run is
\* finished: no table or report is written from the reset results.
C26_LoadDisablesButtons ==
    /\ [][LoadedStep => ~SaveButtonsEnabled']_vars
    /\ [][ReportStep => ~(pr_result = 0 /\ outcome = "load_ok")]_vars

\* C27: the JVM is released on every exit path: the main window of the GUI is
\* destroyed only after the JVM has been killed, and the driver of the command line
\* has killed its JVM whenever it has ended, also when the file could not be read.
C27_JvmReleasedOnEveryExit == process \in Exited => jvm = "killed"

\* the part of C27 about the GUI
C27_WindowDestroyedAfterKill == process = "destroyed" => jvm = "killed"

\* no stack has ever been loaded
NeverLoaded == psf_data = None /\ z_size = NoSize /\ xy_size = NoSize

\* C28: a start request with all eight parameters non-zero and no stack ever loaded
\* ends as a shape mismatch does: the validation warning is shown and no run begins;
\* it does not end in an uncaught exception.
C28_NeverLoadedIsValidationError ==
    [][(StartRequest /\ NeverLoaded /\ \A f \in RequiredFields : field[f] >= 1) =>
          (outcome' = "warn_shape" /\ NoRunBegins)]_vars

\* what holds of C28: no run begins
C28_NeverLoadedNoRun ==
    [][(StartRequest /\ NeverLoaded /\ \A f \in RequiredFields : field[f] >= 1) => NoRunBegins]_vars

\* C29: after a failed load (is_initiated false) a start request is rejected, also
\* when the stack and the parameters of an earlier load are still stored and pass the
\* checks of verify: no run begins.
C29_FailedLoadRejectsStart ==
    [][(StartRequest /\ ~is_initiated) => (outcome' # "started" /\ NoRunBegins)]_vars

\* C29 in the states where no stack is stored: there no run begins
C29_NoStackNoRun ==
    [][(StartRequest /\ ~is_initiated /\ psf_data = None) => (outcome' # "started" /\ NoRunBegins)]_vars

====
